---- MODULE Spec2Model ----
(***************************************************************************)
(* DataScrub Pro (src/app.py): a Streamlit script that is re-run from top  *)
(* to bottom on every user interaction.  The model has one action per      *)
(* interaction (upload, mode switch, platform selection, cleaning job);    *)
(* each action is the whole re-run of the script with the new widget       *)
(* values.  Text is a sequence of one-character strings, a table is a      *)
(* record of column names, column dtypes and rows of cells.                *)
(***************************************************************************)
EXTENDS Integers, Sequences, FiniteSets, TLC

VARIABLES uploaded_file, mode, platform, cleaned_df, last_file,
          cleaning_complete, exported, outcome, report

vars == <<uploaded_file, mode, platform, cleaned_df, last_file,
          cleaning_complete, exported, outcome, report>>

(***************************************************************************)
(* Text: Python str as a sequence of characters.                           *)
(***************************************************************************)
\* A string literal holds the characters U+0001..U+00FF, so text ranges over
\* those; the tables below are Python's for that range.
AsciiUpperCase == <<"A","B","C","D","E","F","G","H","I","J","K","L","M",
                    "N","O","P","Q","R","S","T","U","V","W","X","Y","Z">>
AsciiLowerCase == <<"a","b","c","d","e","f","g","h","i","j","k","l","m",
                    "n","o","p","q","r","s","t","u","v","w","x","y","z">>
Digits == {"0","1","2","3","4","5","6","7","8","9"}

Range(s) == {s[i] : i \in 1..Len(s)}

\* the pattern's classes a-z and A-Z
Letters == Range(AsciiUpperCase) \cup Range(AsciiLowerCase)

\* the characters str.lower() changes, and at the same index what it makes of
\* them
UpperCase == AsciiUpperCase \o
             <<"À","Á","Â","Ã","Ä","Å","Æ","Ç","È","É","Ê","Ë","Ì",
               "Í","Î","Ï","Ð","Ñ","Ò","Ó","Ô","Õ","Ö","Ø","Ù","Ú",
               "Û","Ü","Ý","Þ">>
LowerCase == AsciiLowerCase \o
             <<"à","á","â","ã","ä","å","æ","ç","è","é","ê","ë","ì",
               "í","î","ï","ð","ñ","ò","ó","ô","õ","ö","ø","ù","ú",
               "û","ü","ý","þ">>
UpperChars == Range(UpperCase)
LowerChars == Range(LowerCase)

\* the characters str.strip() removes (str.isspace): tab, line feed, vertical
\* tab, form feed, carriage return, U+001C..U+001F, space, U+0085 and the
\* no-break space U+00A0
Whitespace == {" ", "\t", "\n", "\r", "\f", "", "", "", "", "", "", " "}

\* the characters with the Unicode property Cased: str.title() lower-cases what
\* follows one of them
Cased == UpperChars \cup LowerChars \cup {"ª", "µ", "º", "ß", "ÿ"}

\* the title-case forms of U+00FF and U+00B5, U+0178 and U+039C, which no
\* string literal holds
CapitalYDiaeresis == "U+0178"
CapitalMu == "U+039C"

IndexIn(alphabet, ch) == CHOOSE i \in 1..Len(alphabet) : alphabet[i] = ch

\* str.lower() on one character
LowerChar(ch) ==
  IF ch \in UpperChars THEN LowerCase[IndexIn(UpperCase, ch)] ELSE ch

\* the title-case mapping of one character, which str.title() applies at the
\* start of a word: one character, or two for the sharp s
TitleChar(ch) ==
  IF ch \in LowerChars THEN <<UpperCase[IndexIn(LowerCase, ch)]>>
  ELSE IF ch = "ß" THEN <<"S", "s">>
  ELSE IF ch = "ÿ" THEN <<CapitalYDiaeresis>>
  ELSE IF ch = "µ" THEN <<CapitalMu>>
  ELSE <<ch>>

\* str.lower()
Lower(s) == [i \in 1..Len(s) |-> LowerChar(s[i])]

\* str.replace(' ', '_')
ReplaceSpace(s) == [i \in 1..Len(s) |-> IF s[i] = " " THEN "_" ELSE s[i]]

\* str.strip(): drop leading and trailing whitespace
Strip(s) ==
  LET keep == {i \in 1..Len(s) : s[i] \notin Whitespace}
  IN IF keep = {} THEN <<>>
     ELSE LET lo == CHOOSE i \in keep : \A j \in keep : i <= j
              hi == CHOOSE i \in keep : \A j \in keep : j <= i
          IN SubSeq(s, lo, hi)

\* str.title(): a character is lower-cased when the character before it is
\* cased, title-cased otherwise
RECURSIVE TitleFrom(_, _)
TitleFrom(s, i) ==
  IF i > Len(s) THEN <<>>
  ELSE (IF i > 1 /\ s[i - 1] \in Cased THEN <<LowerChar(s[i])>> ELSE TitleChar(s[i]))
       \o TitleFrom(s, i + 1)

Title(s) == TitleFrom(s, 1)

\* 'name' in col.lower()
ContainsName(col) ==
  LET l == Lower(col)
  IN \E i \in 1..Len(l) : i + 3 <= Len(l) /\ SubSeq(l, i, i + 3) = <<"n","a","m","e">>

(***************************************************************************)
(* Cells and tables (pandas DataFrame as read_csv builds it).              *)
(***************************************************************************)
NA == [kind |-> "na", val |-> <<>>]
Txt(s) == [kind |-> "txt", val |-> s]
Num(s) == [kind |-> "num", val |-> s]

IsNull(c) == c.kind = "na"

\* str(cell) as is_valid_email sees it: NaN prints as "nan"
Str(c) == IF IsNull(c) THEN <<"n","a","n">> ELSE c.val

EmptyFrame == [columns |-> <<>>, dtypes |-> <<>>, rows |-> <<>>]

\* the subsequence of s whose positions are in keep
RECURSIVE SelectAt(_, _, _)
SelectAt(s, keep, i) ==
  IF i > Len(s) THEN <<>>
  ELSE (IF i \in keep THEN <<s[i]>> ELSE <<>>) \o SelectAt(s, keep, i + 1)

WithRows(T, keep) == [T EXCEPT !.rows = SelectAt(T.rows, keep, 1)]

\* df.copy(): a new frame with the same content
Copy(T) == T

(***************************************************************************)
(* Helper functions of the script.                                         *)
(***************************************************************************)
LocalChars == Letters \cup Digits \cup {".", "_", "%", "+", "-"}
DomainChars == Letters \cup Digits \cup {".", "-"}

\* re.match(r'^[a-zA-Z0-9._%+-]+@[a-zA-Z0-9.-]+\.[a-zA-Z]{2,}$', s): at is the
\* position of '@', dot of the '.' before the top-level domain, end of the last
\* matched character ('$' also matches before one trailing newline)
MatchesPattern(s) ==
  LET n == Len(s)
      ends == {n} \cup (IF n >= 1 /\ s[n] = "\n" THEN {n - 1} ELSE {})
  IN \E end \in ends : \E at \in 2..end : \E dot \in (at + 2)..(end - 2) :
       /\ s[at] = "@"
       /\ s[dot] = "."
       /\ \A k \in 1..(at - 1) : s[k] \in LocalChars
       /\ \A k \in (at + 1)..(dot - 1) : s[k] \in DomainChars
       /\ \A k \in (dot + 1)..end : s[k] \in Letters

is_valid_email(email) == MatchesPattern(Str(email))

(***************************************************************************)
(* The pandas operations the script calls.                                 *)
(***************************************************************************)
\* df.empty
IsEmptyFrame(T) == Len(T.columns) = 0 \/ Len(T.rows) = 0

\* Duplicated marking the rows equal to a later row (keep='last')
DuplicatedKeepLast(T) ==
  IF IsEmptyFrame(T) THEN {}
  ELSE {i \in 1..Len(T.rows) : \E j \in (i + 1)..Len(T.rows) : T.rows[j] = T.rows[i]}

\* df.duplicated(): the positions of the rows equal to an earlier row (missing
\* cells compare equal); an empty frame has none
Duplicated(T) ==
  IF IsEmptyFrame(T) THEN {}
  ELSE {i \in 1..Len(T.rows) : \E j \in 1..(i - 1) : T.rows[j] = T.rows[i]}

\* df.isnull().sum().sum()
RECURSIVE CountNullFrom(_, _)
CountNullFrom(rows, i) ==
  IF i > Len(rows) THEN 0
  ELSE Cardinality({c \in 1..Len(rows[i]) : IsNull(rows[i][c])})
       + CountNullFrom(rows, i + 1)

CountNull(T) == CountNullFrom(T.rows, 1)

\* df.size
Size(T) == Len(T.rows) * Len(T.columns)

\* temp_df.drop_duplicates(inplace=True)
DropDuplicates(T) == WithRows(T, (1..Len(T.rows)) \ Duplicated(T))

\* temp_df.dropna(how='all', inplace=True)
DropNaAll(T) ==
  WithRows(T, {i \in 1..Len(T.rows) :
                 \E c \in 1..Len(T.rows[i]) : ~IsNull(T.rows[i][c])})

\* temp_df.select_dtypes(include=['object']).columns, as column positions
ObjectCols(T) == {c \in 1..Len(T.columns) : T.dtypes[c] = "object"}

\* Series.str.<method>() on one cell: text is transformed, anything else is NaN
\* or stays missing
StrStrip(cell) == IF cell.kind = "txt" THEN Txt(Strip(cell.val)) ELSE NA
StrTitle(cell) == IF cell.kind = "txt" THEN Txt(Title(cell.val)) ELSE NA

\* for col in obj_cols: temp_df[col] = temp_df[col].str.strip()
TrimWhitespace(T) ==
  LET obj_cols == ObjectCols(T)
  IN [T EXCEPT !.rows =
        [i \in 1..Len(T.rows) |->
           [c \in 1..Len(T.columns) |->
              IF c \in obj_cols THEN StrStrip(T.rows[i][c]) ELSE T.rows[i][c]]]]

\* for col in obj_cols: if 'name' in col.lower(): temp_df[col] = ....str.title()
TitleCaseNames(T) ==
  LET name_cols == {c \in ObjectCols(T) : ContainsName(T.columns[c])}
  IN [T EXCEPT !.rows =
        [i \in 1..Len(T.rows) |->
           [c \in 1..Len(T.columns) |->
              IF c \in name_cols THEN StrTitle(T.rows[i][c]) ELSE T.rows[i][c]]]]

HasColumn(T, col) == \E c \in 1..Len(T.columns) : T.columns[c] = col

ColumnIndex(T, col) == CHOOSE c \in 1..Len(T.columns) : T.columns[c] = col

\* FilterEmails letting the rows with a missing address through
FilterEmailsKeepMissing(T, col) ==
  IF Len(T.rows) = 0 THEN EmptyFrame
  ELSE LET c == ColumnIndex(T, col)
       IN WithRows(T, {i \in 1..Len(T.rows) :
                         IsNull(T.rows[i][c]) \/ is_valid_email(T.rows[i][c])})

\* temp_df[temp_df[email_col].apply(is_valid_email)]: on a frame without rows
\* apply returns an empty non-boolean Series, which selects no column
FilterEmails(T, col) ==
  IF Len(T.rows) = 0 THEN EmptyFrame
  ELSE LET c == ColumnIndex(T, col)
       IN WithRows(T, {i \in 1..Len(T.rows) : is_valid_email(T.rows[i][c])})

NoneOption == <<"N","o","n","e">>

\* AfterDuplicates removing the duplicates of the trimmed rows
AfterDuplicatesTrimmed(df, cfg) ==
  IF cfg.chk_duplicates
  THEN DropDuplicates(IF cfg.chk_trim THEN TrimWhitespace(Copy(df)) ELSE Copy(df))
  ELSE Copy(df)

\* the body of "if st.button('Run Cleaning Job')" up to the assignment of
\* session_state.cleaned_df; cfg holds the widget values the script read
AfterDuplicates(df, cfg) ==
  IF cfg.chk_duplicates THEN DropDuplicates(Copy(df)) ELSE Copy(df)

AfterEmptyRows(df, cfg) ==
  IF cfg.chk_empty_rows THEN DropNaAll(AfterDuplicates(df, cfg))
  ELSE AfterDuplicates(df, cfg)

AfterTrim(df, cfg) ==
  IF cfg.chk_trim THEN TrimWhitespace(AfterEmptyRows(df, cfg))
  ELSE AfterEmptyRows(df, cfg)

AfterTitleCase(df, cfg) ==
  IF cfg.chk_title_case THEN TitleCaseNames(AfterTrim(df, cfg))
  ELSE AfterTrim(df, cfg)

\* EmailStepRuns without the test for the "None" option
EmailStepRunsUnguarded(cfg) == cfg.chk_validate_email

EmailStepRuns(cfg) == cfg.email_col # NoneOption /\ cfg.chk_validate_email

\* temp_df[email_col] raises KeyError when the frame has no such column
CleaningRaises(df, cfg) ==
  EmailStepRuns(cfg) /\ ~HasColumn(AfterTitleCase(df, cfg), cfg.email_col)

CleaningResult(df, cfg) ==
  IF EmailStepRuns(cfg) THEN FilterEmails(AfterTitleCase(df, cfg), cfg.email_col)
  ELSE AfterTitleCase(df, cfg)

(***************************************************************************)
(* Python float arithmetic (IEEE 754 binary64, round to nearest, ties to   *)
(* even).  A magnitude is a natural number held as a little-endian         *)
(* sequence of limbs below BASE without leading zero limbs; a float is     *)
(* (-1)^neg * m * 2^e.  The values of the score are far from the           *)
(* subnormal and overflow ranges, which are left out.                      *)
(***************************************************************************)
LimbBits == 14
BASE == 2^LimbBits
PRECISION == 53

RECURSIVE BFromInt(_)
BFromInt(n) == IF n = 0 THEN <<>> ELSE <<n % BASE>> \o BFromInt(n \div BASE)

RECURSIVE BToInt(_)
BToInt(a) == IF a = <<>> THEN 0 ELSE a[1] + BASE * BToInt(Tail(a))

RECURSIVE BTrim(_)
BTrim(a) ==
  IF a # <<>> /\ a[Len(a)] = 0 THEN BTrim(SubSeq(a, 1, Len(a) - 1)) ELSE a

Limb(a, i) == IF i <= Len(a) THEN a[i] ELSE 0

RECURSIVE BAddFrom(_, _, _, _)
BAddFrom(a, b, i, carry) ==
  IF i > Len(a) /\ i > Len(b)
  THEN (IF carry = 0 THEN <<>> ELSE <<carry>>)
  ELSE LET t == Limb(a, i) + Limb(b, i) + carry
       IN <<t % BASE>> \o BAddFrom(a, b, i + 1, t \div BASE)

BAdd(a, b) == BAddFrom(a, b, 1, 0)

\* a - b for a >= b
RECURSIVE BSubFrom(_, _, _, _)
BSubFrom(a, b, i, borrow) ==
  IF i > Len(a) THEN <<>>
  ELSE LET t == a[i] - Limb(b, i) - borrow
       IN IF t < 0 THEN <<t + BASE>> \o BSubFrom(a, b, i + 1, 1)
          ELSE <<t>> \o BSubFrom(a, b, i + 1, 0)

BSub(a, b) == BTrim(BSubFrom(a, b, 1, 0))

\* -1, 0, 1 as a < b, a = b, a > b
RECURSIVE BCmpFrom(_, _, _)
BCmpFrom(a, b, i) ==
  IF i = 0 THEN 0
  ELSE IF a[i] < b[i] THEN -1
  ELSE IF a[i] > b[i] THEN 1
  ELSE BCmpFrom(a, b, i - 1)

BCmp(a, b) ==
  IF Len(a) < Len(b) THEN -1
  ELSE IF Len(a) > Len(b) THEN 1
  ELSE BCmpFrom(a, b, Len(a))

\* a * k for 0 <= k <= BASE
RECURSIVE BMulSmallFrom(_, _, _, _)
BMulSmallFrom(a, k, i, carry) ==
  IF i > Len(a) THEN (IF carry = 0 THEN <<>> ELSE <<carry>>)
  ELSE LET t == a[i] * k + carry
       IN <<t % BASE>> \o BMulSmallFrom(a, k, i + 1, t \div BASE)

BMulSmall(a, k) == BTrim(BMulSmallFrom(a, k, 1, 0))

ZeroLimbs(n) == [i \in 1..n |-> 0]

RECURSIVE BMulFrom(_, _, _)
BMulFrom(a, b, i) ==
  IF i > Len(b) THEN <<>>
  ELSE LET part == BMulSmall(a, b[i])
       IN BAdd(IF part = <<>> THEN <<>> ELSE ZeroLimbs(i - 1) \o part,
               BMulFrom(a, b, i + 1))

BMul(a, b) == BMulFrom(a, b, 1)

\* <<a \div k, a % k>> for 1 <= k <= BASE, from the top limb down
RECURSIVE BDivSmallFrom(_, _, _, _, _)
BDivSmallFrom(a, k, i, rem, quot) ==
  IF i = 0 THEN <<BTrim(quot), rem>>
  ELSE LET t == rem * BASE + a[i]
       IN BDivSmallFrom(a, k, i - 1, t % k, <<t \div k>> \o quot)

BDivSmall(a, k) == BDivSmallFrom(a, k, Len(a), 0, <<>>)

\* a * 2^n
BShl(a, n) ==
  IF a = <<>> THEN <<>>
  ELSE ZeroLimbs(n \div LimbBits) \o BMulSmall(a, 2^(n % LimbBits))

\* a \div 2^n
BShr(a, n) ==
  IF n \div LimbBits >= Len(a) THEN <<>>
  ELSE BDivSmall(SubSeq(a, n \div LimbBits + 1, Len(a)), 2^(n % LimbBits))[1]

RECURSIVE IntBitLen(_)
IntBitLen(n) == IF n = 0 THEN 0 ELSE 1 + IntBitLen(n \div 2)

BBitLen(a) ==
  IF a = <<>> THEN 0 ELSE LimbBits * (Len(a) - 1) + IntBitLen(a[Len(a)])

BIsOdd(a) == a # <<>> /\ a[1] % 2 = 1

\* the float nearest to (-1)^neg * n * 2^e, ties to the even mantissa
RoundToFloat(neg, n, e) ==
  IF BBitLen(n) <= PRECISION THEN [neg |-> neg, m |-> n, e |-> e]
  ELSE LET s == BBitLen(n) - PRECISION
           q == BShr(n, s)
           r == BSub(n, BShl(q, s))
           c == BCmp(r, BShl(<<1>>, s - 1))
           up == c = 1 \/ (c = 0 /\ BIsOdd(q))
       IN [neg |-> neg, m |-> IF up THEN BAdd(q, <<1>>) ELSE q, e |-> e + s]

FloatOfInt(n) ==
  [neg |-> n < 0, m |-> BFromInt(IF n < 0 THEN -n ELSE n), e |-> 0]

\* a / b for integers a >= 0 and 0 < b < BASE: the quotient is cut below
\* 2^-GuardBits and a set lowest bit stands for a remainder
GuardBits == 70
FloatDivInt(a, b) ==
  LET qr == BDivSmall(BShl(BFromInt(a), GuardBits), b)
      sticky == IF qr[2] = 0 THEN <<>> ELSE <<1>>
  IN RoundToFloat(FALSE, BAdd(BShl(qr[1], 1), sticky), -(GuardBits + 1))

FloatMul(x, y) == RoundToFloat(x.neg # y.neg, BMul(x.m, y.m), x.e + y.e)

FloatNeg(x) == [x EXCEPT !.neg = ~x.neg]

FloatAdd(x, y) ==
  LET e == IF x.e < y.e THEN x.e ELSE y.e
      xm == BShl(x.m, x.e - e)
      ym == BShl(y.m, y.e - e)
  IN IF x.neg = y.neg THEN RoundToFloat(x.neg, BAdd(xm, ym), e)
     ELSE IF BCmp(xm, ym) >= 0 THEN RoundToFloat(x.neg, BSub(xm, ym), e)
     ELSE RoundToFloat(y.neg, BSub(ym, xm), e)

FloatSub(x, y) == FloatAdd(x, FloatNeg(y))

\* int(x): truncation toward zero
FloatToInt(x) ==
  LET mag == BToInt(IF x.e >= 0 THEN BShl(x.m, x.e) ELSE BShr(x.m, -x.e))
  IN IF x.neg THEN -mag ELSE mag

Max(a, b) == IF a >= b THEN a ELSE b

\* the literals 0.7 and 0.3: the floats nearest to 7/10 and 3/10
MissingWeight == FloatDivInt(7, 10)
DuplicateWeight == FloatDivInt(3, 10)

\* ScoreOfCounts with the else branches of the two penalties charging the
\* full penalty for an empty frame
ScoreOfCountsEmptyCharged(total_cells, total_missing, duplicate_rows, len_df) ==
  LET missing_penalty ==
        IF total_cells > 0
        THEN FloatMul(FloatDivInt(total_missing, total_cells), FloatOfInt(100))
        ELSE FloatOfInt(100)
      duplicate_penalty ==
        IF len_df > 0
        THEN FloatMul(FloatDivInt(duplicate_rows, len_df), FloatOfInt(100))
        ELSE FloatOfInt(100)
      score ==
        FloatSub(FloatSub(FloatOfInt(100),
                          FloatMul(missing_penalty, MissingWeight)),
                 FloatMul(duplicate_penalty, DuplicateWeight))
  IN Max(0, FloatToInt(score))

\* the score from the counts the function takes from the frame
ScoreOfCounts(total_cells, total_missing, duplicate_rows, len_df) ==
  LET missing_penalty ==
        IF total_cells > 0
        THEN FloatMul(FloatDivInt(total_missing, total_cells), FloatOfInt(100))
        ELSE FloatOfInt(0)
      duplicate_penalty ==
        IF len_df > 0
        THEN FloatMul(FloatDivInt(duplicate_rows, len_df), FloatOfInt(100))
        ELSE FloatOfInt(0)
      score ==
        FloatSub(FloatSub(FloatOfInt(100),
                          FloatMul(missing_penalty, MissingWeight)),
                 FloatMul(duplicate_penalty, DuplicateWeight))
  IN Max(0, FloatToInt(score))

calculate_quality_score(df) ==
  ScoreOfCounts(Size(df), CountNull(df), Cardinality(Duplicated(df)), Len(df.rows))

(***************************************************************************)
(* Health Audit: the numbers the audit page shows.                         *)
(***************************************************************************)
NoReport == [shown |-> FALSE, score |-> 0, duplicates |-> 0, missing |-> 0,
             columns |-> 0]

HealthAudit(df) ==
  [shown |-> TRUE,
   score |-> calculate_quality_score(df),
   duplicates |-> Cardinality(Duplicated(df)),
   missing |-> CountNull(df),
   columns |-> Len(df.columns)]

(***************************************************************************)
(* Export Tools.                                                           *)
(***************************************************************************)
UniversalCsv == "Universal CSV"
Salesforce == "Salesforce Compatible"
HubSpot == "HubSpot Import"
Platforms == {UniversalCsv, Salesforce, HubSpot}

\* SnakeCaseColumns without the replacement of spaces
SnakeCaseColumnsLowerOnly(T) ==
  [T EXCEPT !.columns = [c \in 1..Len(T.columns) |-> Lower(T.columns[c])]]

\* clean_data.columns = [c.lower().replace(' ', '_') for c in clean_data.columns]
SnakeCaseColumns(T) ==
  [T EXCEPT !.columns = [c \in 1..Len(T.columns) |-> ReplaceSpace(Lower(T.columns[c]))]]

\* clean_data after the platform branch; clean_data is the very object held in
\* session_state.cleaned_df, so this is also the stored frame after the run
FormatForPlatform(clean_data, p) ==
  IF p = Salesforce THEN SnakeCaseColumns(clean_data) ELSE clean_data

\* clean_data.to_csv(index=False): the header row and the rows of the frame
ToCsv(T) == [columns |-> T.columns, rows |-> T.rows]

NoExport == [offered |-> FALSE, platform |-> UniversalCsv, csv |-> ToCsv(EmptyFrame)]

(***************************************************************************)
(* Uploads.  read_csv gives a column the dtype object when it holds text   *)
(* or the file has no data row, and float64 otherwise.                     *)
(***************************************************************************)
InferDtype(rows, c) ==
  IF rows = <<>> \/ \E i \in 1..Len(rows) : rows[i][c].kind = "txt"
  THEN "object" ELSE "float64"

\* pd.read_csv(uploaded_file) for a file with this header and these data rows
ReadCsv(columns, rows) ==
  [columns |-> columns,
   dtypes |-> [c \in 1..Len(columns) |-> InferDtype(rows, c)],
   rows |-> rows]

\* the sequences over S of length n, and of length at most n
RECURSIVE SeqsOfLen(_, _)
SeqsOfLen(S, n) ==
  IF n = 0 THEN {<<>>}
  ELSE {Append(q, x) : q \in SeqsOfLen(S, n - 1), x \in S}

SeqsUpTo(S, n) == UNION {SeqsOfLen(S, k) : k \in 0..n}

FullName == <<"F","u","l","l"," ","N","a","m","e">>
Email == <<"E","m","a","i","l">>
LeadColumns == <<FullName, Email>>

\* data rows of a lead list: a plain row, the same row with a trailing form
\* feed, an all-missing row, a row with an accented name in mixed case and a
\* whitespace address, a row without a name whose address is valid only once
\* trimmed
LeadRows ==
  { <<Txt(<<"j","o">>), Txt(<<"a","@","b",".","c","o">>)>>,
    <<Txt(<<"j","o","\f">>), Txt(<<"a","@","b",".","c","o">>)>>,
    <<NA, NA>>,
    <<Txt(<<"é","O">>), Txt(<<" ">>)>>,
    <<NA, Txt(<<" ","a","@","b",".","c","o">>)>> }

MaxRows == 2
LeadTables == {ReadCsv(LeadColumns, rows) : rows \in SeqsUpTo(LeadRows, MaxRows)}

\* longer lead lists of two rows that repeat, so that a row comes back after a
\* different row: a plain row and an all-missing row
RepeatRows ==
  { <<Txt(<<"j","o">>), Txt(<<"a","@","b",".","c","o">>)>>,
    <<NA, NA>> }

MaxRepeatRows == 3
RepeatTables ==
  {ReadCsv(LeadColumns, rows) : rows \in SeqsUpTo(RepeatRows, MaxRepeatRows)}

\* the files of the session model: short lead lists whose row changes under
\* trimming, title-casing and the email filter, and a contact list whose
\* header is already lower-case
SessionLeadRows ==
  { <<Txt(<<"é","O","\f">>), Txt(<<" ","a","@","b",".","c","o">>)>> }

ContactColumns == <<<<"e","m","a","i","l">>, <<"a","g","e">>>>
ContactTable ==
  ReadCsv(ContactColumns,
          << <<Txt(<<"a","@","b",".","c","o">>), Num(<<"7",".","5">>)>> >>)

MaxSessionRows == 1
SessionTables ==
  {ReadCsv(LeadColumns, rows) : rows \in SeqsUpTo(SessionLeadRows, MaxSessionRows)}
  \cup {ContactTable}

\* st.file_uploader: nothing, or a file with a name and what read_csv makes of
\* its bytes (parses is FALSE when read_csv raises)
NoName == ""
NoFile == [present |-> FALSE, name |-> NoName, parses |-> FALSE, df |-> EmptyFrame]
CsvFile(name, T) == [present |-> TRUE, name |-> name, parses |-> TRUE, df |-> T]
BrokenFile(name) == [present |-> TRUE, name |-> name, parses |-> FALSE, df |-> EmptyFrame]

FileNames == {"a.csv", "b.csv"}
SessionFiles ==
  {CsvFile(n, T) : n \in FileNames, T \in SessionTables}
  \cup {BrokenFile(n) : n \in FileNames}

(***************************************************************************)
(* The script.  Every interaction re-runs it with the widget values of     *)
(* that moment: the file, the mode, the platform, and whether the          *)
(* cleaning button was pressed (with the configuration cfg).               *)
(***************************************************************************)
HealthAuditMode == "Health Audit"
DeepCleanMode == "Deep Clean"
ExportMode == "Export Tools"
Modes == {HealthAuditMode, DeepCleanMode, ExportMode}

NoConfig ==
  [chk_duplicates |-> FALSE, chk_empty_rows |-> FALSE, chk_title_case |-> FALSE,
   chk_trim |-> FALSE, chk_validate_email |-> FALSE, email_col |-> NoneOption]

\* the result of the last run: what the page showed and, for a cleaning job,
\* the frame read from the file and the configuration it ran with
Outcome(kind, df, cfg) == [kind |-> kind, df |-> df, cfg |-> cfg]

\* line 150: the stored frame is replaced only for a file of another name
NeedsReset(file) == last_file = NoName \/ last_file # file.name

\* session_state.cleaned_df after lines 150-152
CurrentDf(file) == IF NeedsReset(file) THEN Copy(file.df) ELSE cleaned_df

\* ["None"] + list(current_df.columns)
EmailColumnOptions(current_df) == {NoneOption} \cup Range(current_df.columns)

Configs(current_df) ==
  [chk_duplicates : BOOLEAN, chk_empty_rows : BOOLEAN, chk_title_case : BOOLEAN,
   chk_trim : BOOLEAN, chk_validate_email : BOOLEAN,
   email_col : EmailColumnOptions(current_df)]

Landing ==
  /\ cleaned_df' = cleaned_df
  /\ last_file' = last_file
  /\ cleaning_complete' = cleaning_complete
  /\ platform' = UniversalCsv
  /\ exported' = NoExport
  /\ report' = NoReport

\* no file: the landing page
RunLanding ==
  /\ Landing
  /\ outcome' = Outcome("landing", EmptyFrame, NoConfig)

\* read_csv raises: the except branch reports the error
RunLoadError ==
  /\ Landing
  /\ outcome' = Outcome("load_error", EmptyFrame, NoConfig)

RunHealthAudit(file) ==
  /\ cleaned_df' = CurrentDf(file)
  /\ last_file' = file.name
  /\ cleaning_complete' = cleaning_complete
  /\ platform' = UniversalCsv
  /\ exported' = NoExport
  /\ report' = HealthAudit(file.df)
  /\ outcome' = Outcome("audit", file.df, NoConfig)

\* Deep Clean without the button pressed: settings and preview only
RunDeepCleanPreview(file) ==
  /\ cleaned_df' = CurrentDf(file)
  /\ last_file' = file.name
  /\ cleaning_complete' = cleaning_complete
  /\ platform' = UniversalCsv
  /\ exported' = NoExport
  /\ report' = NoReport
  /\ outcome' = Outcome("preview", file.df, NoConfig)

\* RunDeepCleanJob cleaning the stored frame instead of a copy of the file's
RunDeepCleanJobOnStored(file, cfg) ==
  /\ last_file' = file.name
  /\ platform' = UniversalCsv
  /\ exported' = NoExport
  /\ report' = NoReport
  /\ IF CleaningRaises(CurrentDf(file), cfg)
     THEN /\ cleaned_df' = CurrentDf(file)
          /\ cleaning_complete' = cleaning_complete
          /\ outcome' = Outcome("key_error", file.df, cfg)
     ELSE /\ cleaned_df' = CleaningResult(CurrentDf(file), cfg)
          /\ cleaning_complete' = TRUE
          /\ outcome' = Outcome("cleaned", file.df, cfg)

\* Deep Clean with the button pressed; a KeyError leaves the except branch
\* with the session as lines 150-152 left it
RunDeepCleanJob(file, cfg) ==
  /\ last_file' = file.name
  /\ platform' = UniversalCsv
  /\ exported' = NoExport
  /\ report' = NoReport
  /\ IF CleaningRaises(file.df, cfg)
     THEN /\ cleaned_df' = CurrentDf(file)
          /\ cleaning_complete' = cleaning_complete
          /\ outcome' = Outcome("key_error", file.df, cfg)
     ELSE /\ cleaned_df' = CleaningResult(file.df, cfg)
          /\ cleaning_complete' = TRUE
          /\ outcome' = Outcome("cleaned", file.df, cfg)

RunExport(file, p) ==
  /\ cleaned_df' = FormatForPlatform(CurrentDf(file), p)
  /\ last_file' = file.name
  /\ cleaning_complete' = cleaning_complete
  /\ platform' = p
  /\ exported' = [offered |-> TRUE, platform |-> p,
                  csv |-> ToCsv(FormatForPlatform(CurrentDf(file), p))]
  /\ report' = NoReport
  /\ outcome' = Outcome("export", file.df, NoConfig)

\* a run without the cleaning button pressed
RunScript(file, m, p) ==
  IF ~file.present THEN RunLanding
  ELSE IF ~file.parses THEN RunLoadError
  ELSE IF m = HealthAuditMode THEN RunHealthAudit(file)
  ELSE IF m = DeepCleanMode THEN RunDeepCleanPreview(file)
  ELSE RunExport(file, p)

Init ==
  /\ uploaded_file = NoFile
  /\ mode = HealthAuditMode
  /\ platform = UniversalCsv
  /\ cleaned_df = EmptyFrame
  /\ last_file = NoName
  /\ cleaning_complete = FALSE
  /\ exported = NoExport
  /\ outcome = Outcome("landing", EmptyFrame, NoConfig)
  /\ report = NoReport

\* the user drops a file on the uploader (platform keeps its value: the
\* selectbox is UniversalCsv whenever the last run did not show it)
UploadFrom(files) ==
  \E f \in files :
    /\ uploaded_file' = f
    /\ mode' = mode
    /\ RunScript(f, mode, platform)

Upload == UploadFrom(SessionFiles)

RemoveFile ==
  /\ uploaded_file.present
  /\ uploaded_file' = NoFile
  /\ mode' = mode
  /\ RunScript(NoFile, mode, platform)

\* the sidebar radio; a selectbox shown for the first time has its first option
SetMode ==
  \E m \in Modes \ {mode} :
    /\ mode' = m
    /\ uploaded_file' = uploaded_file
    /\ RunScript(uploaded_file, m, UniversalCsv)

\* the platform selectbox, shown in Export Tools for a loaded file; choosing
\* the current platform stands for pressing the download button
SelectPlatform ==
  /\ uploaded_file.present /\ uploaded_file.parses /\ mode = ExportMode
  /\ \E p \in Platforms :
       /\ UNCHANGED <<uploaded_file, mode>>
       /\ RunExport(uploaded_file, p)

\* the "Run Cleaning Job" button with the settings of the moment
RunCleaningJob ==
  /\ uploaded_file.present /\ uploaded_file.parses /\ mode = DeepCleanMode
  /\ \E cfg \in Configs(cleaned_df) :
       /\ UNCHANGED <<uploaded_file, mode>>
       /\ RunDeepCleanJob(uploaded_file, cfg)

Next == Upload \/ RemoveFile \/ SetMode \/ SelectPlatform \/ RunCleaningJob

Spec == Init /\ [][Next]_vars

(***************************************************************************)
(* The cleaning job on its own: a lead list is loaded and Deep Clean is    *)
(* open (the state after the upload and the mode switch); the only         *)
(* interaction is the cleaning button, with every configuration.           *)
(***************************************************************************)
LeadFiles == {CsvFile("leads.csv", T) : T \in LeadTables \cup RepeatTables}

InitClean ==
  /\ uploaded_file \in LeadFiles
  /\ mode = DeepCleanMode
  /\ platform = UniversalCsv
  /\ cleaned_df = Copy(uploaded_file.df)
  /\ last_file = uploaded_file.name
  /\ cleaning_complete = FALSE
  /\ exported = NoExport
  /\ outcome = Outcome("preview", uploaded_file.df, NoConfig)
  /\ report = NoReport

NextClean == RunCleaningJob

SpecClean == InitClean /\ [][NextClean]_vars

(***************************************************************************)
(* The health audit on its own: a file of numbers with missing cells is    *)
(* loaded and Deep Clean is open; the only interaction is the mode radio,  *)
(* which leads to the Health Audit page of that file.                      *)
(***************************************************************************)
ColumnPool == <<<<"a">>, <<"b">>, <<"c">>>>
ScoreCells == {NA, Num(<<"7",".","5">>)}
ScoreMaxRows == 6
ScoreMaxCols == 1

ScoreTables ==
  UNION {{ReadCsv(SubSeq(ColumnPool, 1, k), rows) :
            rows \in SeqsUpTo([1..k -> ScoreCells], ScoreMaxRows)} :
         k \in 1..ScoreMaxCols}

ScoreFiles == {CsvFile("numbers.csv", T) : T \in ScoreTables}

InitScore ==
  /\ uploaded_file \in ScoreFiles
  /\ mode = DeepCleanMode
  /\ platform = UniversalCsv
  /\ cleaned_df = Copy(uploaded_file.df)
  /\ last_file = uploaded_file.name
  /\ cleaning_complete = FALSE
  /\ exported = NoExport
  /\ outcome = Outcome("preview", uploaded_file.df, NoConfig)
  /\ report = NoReport

NextScore == SetMode

SpecScore == InitScore /\ [][NextScore]_vars

(***************************************************************************)
(* Properties of the quality score (checked under SpecScore).              *)
(***************************************************************************)
\* the score formula in exact arithmetic:
\* max(0, trunc(100 - 0.7 * 100 * missing / cells - 0.3 * 100 * duplicates / rows)),
\* a penalty being 0 when its denominator is 0
ExactScore(cells, missing, duplicates, rows) ==
  LET c == IF cells > 0 THEN cells ELSE 1
      r == IF rows > 0 THEN rows ELSE 1
      m == IF cells > 0 THEN missing ELSE 0
      d == IF rows > 0 THEN duplicates ELSE 0
      num == 100 * c * r - 70 * m * r - 30 * d * c
  IN IF num <= 0 THEN 0 ELSE num \div (c * r)

\* the rows of a frame equal to an earlier row, counted row by row
EarlierEqual(rows, i) == \E j \in 1..(i - 1) : rows[j] = rows[i]
DuplicateRowCount(T) == Cardinality({i \in 1..Len(T.rows) : EarlierEqual(T.rows, i)})

\* C1: for every table the score shown by the audit is
\* max(0, trunc(100 - 0.7*missing_penalty - 0.3*duplicate_penalty)) with the
\* penalties as percentages of missing cells and of rows equal to an earlier
\* row, and it is an integer in 0..100
C1_ScoreIsTheFormula ==
  report.shown =>
    /\ report.score \in 0..100
    /\ report.score =
         ExactScore(Len(uploaded_file.df.rows) * Len(uploaded_file.df.columns),
                    report.missing,
                    DuplicateRowCount(uploaded_file.df),
                    Len(uploaded_file.df.rows))

\* frames without rows, with no column and with one or more
ZeroRowFrames ==
  {EmptyFrame} \cup {ReadCsv(SubSeq(ColumnPool, 1, k), <<>>) : k \in 1..Len(ColumnPool)}

EmptyFramesScore100 ==
  \A T \in ZeroRowFrames :
    /\ calculate_quality_score(T) = 100
    /\ CountNull(T) = 0
    /\ Cardinality(Duplicated(T)) = 0

\* C2: a table without rows, whatever its number of columns, scores 100 with
\* 0 missing cells and 0 duplicate rows, both on the audit page and when the
\* function is applied to a frame with no column at all
C2_EmptyTableScores100 ==
  /\ EmptyFramesScore100
  /\ (report.shown /\ Len(uploaded_file.df.rows) = 0) =>
       /\ report.score = 100
       /\ report.missing = 0
       /\ report.duplicates = 0

\* the audit page of a file that holds a header and no data row
C2_Witness ==
  /\ report.shown
  /\ Len(uploaded_file.df.rows) = 0
  /\ Len(uploaded_file.df.columns) > 0
  /\ mode = HealthAuditMode

(***************************************************************************)
(* Properties of the cleaning job (checked under SpecClean).  In a state   *)
(* whose outcome is "cleaned", outcome.df is the frame the job read from   *)
(* the file, outcome.cfg its configuration and cleaned_df what it stored.  *)
(***************************************************************************)
Cleaned == outcome.kind = "cleaned"

OnlySteps(cfg, dup, empty, trim, title) ==
  /\ cfg.chk_duplicates = dup
  /\ cfg.chk_empty_rows = empty
  /\ cfg.chk_trim = trim
  /\ cfg.chk_title_case = title
  /\ ~(cfg.chk_validate_email /\ cfg.email_col # NoneOption)

AllMissing(row) == \A c \in 1..Len(row) : IsNull(row[c])

\* C3: the enabled steps run in the order remove-duplicates, drop-empty-rows,
\* trim, title-case, email-filter, each on the previous step's output;
\* duplicates are those of the untrimmed rows, and a row that is a duplicate
\* and all-missing is removed once
C3_StepsComposeInOrder ==
  Cleaned =>
    LET cfg == outcome.cfg
        t0 == outcome.df
        t1 == IF cfg.chk_duplicates THEN DropDuplicates(t0) ELSE t0
        t2 == IF cfg.chk_empty_rows THEN DropNaAll(t1) ELSE t1
        t3 == IF cfg.chk_trim THEN TrimWhitespace(t2) ELSE t2
        t4 == IF cfg.chk_title_case THEN TitleCaseNames(t3) ELSE t3
        t5 == IF cfg.chk_validate_email /\ cfg.email_col # NoneOption
              THEN FilterEmails(t4, cfg.email_col) ELSE t4
    IN /\ cleaned_df = t5
       /\ OnlySteps(cfg, TRUE, FALSE, TRUE, FALSE) =>
            Len(cleaned_df.rows) = Cardinality(Range(t0.rows))
       /\ OnlySteps(cfg, TRUE, TRUE, FALSE, FALSE) =>
            Len(cleaned_df.rows) =
              Cardinality({r \in Range(t0.rows) : ~AllMissing(r)})

\* duplicates were removed and the rows trimmed, and two rows that differed
\* only by a trailing form feed are both in the result, now equal
C3_Witness ==
  /\ Cleaned
  /\ OnlySteps(outcome.cfg, TRUE, FALSE, TRUE, FALSE)
  /\ Len(outcome.df.rows) = 2
  /\ Len(cleaned_df.rows) = 2
  /\ cleaned_df.rows[1] = cleaned_df.rows[2]

\* C4: with every step disabled the job stores a table equal to the uploaded
\* one in rows, row order, column names and cell values, and the uploaded
\* table is what it was
C4_AllDisabledIsIdentity ==
  (Cleaned /\ OnlySteps(outcome.cfg, FALSE, FALSE, FALSE, FALSE)) =>
    /\ cleaned_df.columns = uploaded_file.df.columns
    /\ cleaned_df.rows = uploaded_file.df.rows
    /\ cleaned_df = uploaded_file.df
    /\ uploaded_file.df = outcome.df

\* a job with every step disabled ran on a table of two equal all-missing rows
C4_Witness ==
  /\ Cleaned
  /\ OnlySteps(outcome.cfg, FALSE, FALSE, FALSE, FALSE)
  /\ Duplicated(uploaded_file.df) # {}
  /\ \E i \in 1..Len(uploaded_file.df.rows) : AllMissing(uploaded_file.df.rows[i])
  /\ Len(cleaned_df.rows) = 2

RECURSIVE FirstOccurrences(_, _)
FirstOccurrences(rows, seen) ==
  IF rows = <<>> THEN <<>>
  ELSE IF Head(rows) \in seen THEN FirstOccurrences(Tail(rows), seen)
  ELSE <<Head(rows)>> \o FirstOccurrences(Tail(rows), seen \cup {Head(rows)})

\* C5: with only remove-duplicates enabled the result is the first occurrence
\* of each distinct row in the original order, has no two equal rows, and
\* cleaning it again with the same configuration changes nothing
C5_DedupeKeepsFirstOccurrences ==
  (Cleaned /\ OnlySteps(outcome.cfg, TRUE, FALSE, FALSE, FALSE)) =>
    /\ cleaned_df.rows = FirstOccurrences(outcome.df.rows, {})
    /\ cleaned_df.columns = outcome.df.columns
    /\ \A i, j \in 1..Len(cleaned_df.rows) :
         cleaned_df.rows[i] = cleaned_df.rows[j] => i = j
    /\ ~CleaningRaises(cleaned_df, outcome.cfg)
    /\ CleaningResult(cleaned_df, outcome.cfg) = cleaned_df

\* a dedupe-only job ran on three rows whose third repeats the first after a
\* different second row, and kept the first and the second in that order
C5_Witness ==
  /\ Cleaned
  /\ OnlySteps(outcome.cfg, TRUE, FALSE, FALSE, FALSE)
  /\ Len(outcome.df.rows) = 3
  /\ outcome.df.rows[3] = outcome.df.rows[1]
  /\ outcome.df.rows[2] # outcome.df.rows[1]
  /\ cleaned_df.rows = <<outcome.df.rows[1], outcome.df.rows[2]>>

RECURSIVE IsSubsequence(_, _)
IsSubsequence(short, long) ==
  IF short = <<>> THEN TRUE
  ELSE IF long = <<>> THEN FALSE
  ELSE IF Head(short) = Head(long) THEN IsSubsequence(Tail(short), Tail(long))
  ELSE IsSubsequence(short, Tail(long))

EmailFilterRan == Cleaned /\ outcome.cfg.chk_validate_email /\ outcome.cfg.email_col # NoneOption

\* the frame the email step received
BeforeEmailStep == AfterTitleCase(outcome.df, outcome.cfg)

\* C6: the email filter keeps exactly the rows whose cell in the selected
\* column matches the pattern, in order and unchanged; a row whose cell there
\* is missing or empty is dropped
C6_EmailFilterKeepsMatchingRows ==
  /\ is_valid_email(Txt(<<"a","@","b",".","c","o","m">>))
  /\ is_valid_email(Txt(<<"x","@","y",".","c","o">>))
  /\ ~is_valid_email(Txt(<<"b","a","d","-","e","m","a","i","l">>))
  /\ ~is_valid_email(Txt(<<>>))
  /\ ~is_valid_email(NA)
  /\ EmailFilterRan =>
       LET pre == BeforeEmailStep
           c == ColumnIndex(pre, outcome.cfg.email_col)
           matching == {i \in 1..Len(pre.rows) : is_valid_email(pre.rows[i][c])}
       IN /\ IsSubsequence(cleaned_df.rows, pre.rows)
          /\ Len(cleaned_df.rows) = Cardinality(matching)
          /\ \A i \in 1..Len(cleaned_df.rows) :
               /\ is_valid_email(cleaned_df.rows[i][c])
               /\ ~IsNull(cleaned_df.rows[i][c])
               /\ cleaned_df.rows[i][c].val # <<>>

\* the filter ran on the Email column of two rows, kept the row with a valid
\* address and dropped the row whose address is missing
C6_Witness ==
  /\ EmailFilterRan
  /\ outcome.cfg.email_col = Email
  /\ Len(BeforeEmailStep.rows) = 2
  /\ IsNull(BeforeEmailStep.rows[2][2])
  /\ cleaned_df.rows = <<BeforeEmailStep.rows[1]>>

EmailTickedWithoutColumn == outcome.cfg.chk_validate_email /\ outcome.cfg.email_col = NoneOption

\* C7: with the email option enabled and no column selected the email step
\* does nothing: the job raises no error and stores the output of the steps
\* before it, whatever the other options
C7_NoColumnMeansNoFilter ==
  EmailTickedWithoutColumn =>
    /\ Cleaned
    /\ cleaned_df = AfterTitleCase(outcome.df, outcome.cfg)
    /\ OnlySteps(outcome.cfg, FALSE, FALSE, FALSE, FALSE) =>
         cleaned_df.rows = outcome.df.rows

\* the option was ticked without a column on a table with an invalid address,
\* and the row is still there
C7_Witness ==
  /\ EmailTickedWithoutColumn
  /\ Cleaned
  /\ Len(cleaned_df.rows) = 2
  /\ \E i \in 1..2 : ~is_valid_email(cleaned_df.rows[i][2])

(***************************************************************************)
(* Properties of the export and of the session (checked under Spec).  In   *)
(* a step that offers an export, CurrentDf(uploaded_file') is the stored   *)
(* frame the export page was given.                                        *)
(***************************************************************************)
FirstNameHeader == <<"F","i","r","s","t"," ","N","a","m","e">>
EmailAddressHeader == <<"E","m","a","i","l"," ","A","d","d","r","e","s","s">>

\* C8: an export changes column names only: for Salesforce Compatible every
\* name is the given name lower-cased with each space replaced by an
\* underscore, for the other platforms the names are the given ones; rows and
\* cells are the given ones
C8_ExportRenamesColumnsOnly ==
  [][exported'.offered =>
       LET given == CurrentDf(uploaded_file')
           csv == exported'.csv
       IN /\ csv.rows = given.rows
          /\ Len(csv.columns) = Len(given.columns)
          /\ \A c \in 1..Len(given.columns) :
               IF exported'.platform = Salesforce
               THEN /\ Len(csv.columns[c]) = Len(given.columns[c])
                    /\ \A k \in 1..Len(given.columns[c]) :
                         csv.columns[c][k] =
                           IF given.columns[c][k] = " " THEN "_"
                           ELSE LowerChar(given.columns[c][k])
               ELSE csv.columns[c] = given.columns[c]
          /\ FormatForPlatform(
               ReadCsv(<<FirstNameHeader, EmailAddressHeader>>, <<>>), Salesforce).columns
             = << <<"f","i","r","s","t","_","n","a","m","e">>,
                  <<"e","m","a","i","l","_","a","d","d","r","e","s","s">> >>]_vars

\* the Salesforce export of a one-row lead list
C8_Witness ==
  /\ exported.offered
  /\ exported.platform = Salesforce
  /\ exported.csv.columns = << <<"f","u","l","l","_","n","a","m","e">>,
                               <<"e","m","a","i","l">> >>
  /\ Len(exported.csv.rows) = 1
  /\ exported.csv.rows = uploaded_file.df.rows

\* C9: an export never changes the stored cleaned table: after the step the
\* stored table has the column names of the table the export was given
C9_ExportLeavesStoredTable ==
  [][exported'.offered =>
       cleaned_df'.columns = CurrentDf(uploaded_file').columns]_vars

\* C10: whenever Deep Clean is open on a loaded file, every column offered for
\* the email filter is a column of the table read from the file, and no
\* cleaning job has failed on a missing column
C10_OfferedColumnsExist ==
  (uploaded_file.present /\ uploaded_file.parses /\ mode = DeepCleanMode) =>
    /\ EmailColumnOptions(cleaned_df) \ {NoneOption} \subseteq Range(uploaded_file.df.columns)
    /\ outcome.kind # "key_error"

====
